---- MODULE Spec2Model ----
(***************************************************************************)
(* ComplianceChecker (components/compliance_checker.py): the rule          *)
(* evaluation and scoring engine behind check_document.                    *)
(*                                                                         *)
(* Python text is a sequence of one-character strings.  A Python value is  *)
(* a record tagged with its type, a dict is a record whose DOMAIN is its   *)
(* key set, and an f-string is the tuple of its literal and formatted      *)
(* parts.  Scores are floats in the source whose finest unit is half a     *)
(* point; they are integers counted in 1/ScoreScale points here.           *)
(***************************************************************************)
EXTENDS Integers, Sequences, FiniteSets, TLC

VARIABLES self, doc_data, process_type, pc, outcome, history

vars == <<self, doc_data, process_type, pc, outcome, history>>

(***************************************************************************)
(* Python primitives                                                       *)
(***************************************************************************)
PyNone == [type |-> "NoneType"]

PyStr(chars) == [type |-> "str", val |-> chars]

PyInt(n) == [type |-> "int", val |-> n]

PyList(items) == [type |-> "list", val |-> items]

\* dict.get(key, default)
DictGet(d, key, default) == IF key \in DOMAIN d THEN d[key] ELSE default

PyMin(a, b) == IF a <= b THEN a ELSE b

PyMax(a, b) == IF a >= b THEN a ELSE b

SetMin(S) == CHOOSE x \in S : \A y \in S : x <= y

SetMax(S) == CHOOSE x \in S : \A y \in S : x >= y

\* len() is defined for text and lists only
HasLen(v) == v.type \in {"str", "list"}

UpperToLower ==
    ("A" :> "a") @@ ("B" :> "b") @@ ("C" :> "c") @@ ("D" :> "d") @@
    ("E" :> "e") @@ ("F" :> "f") @@ ("G" :> "g") @@ ("H" :> "h") @@
    ("I" :> "i") @@ ("J" :> "j") @@ ("K" :> "k") @@ ("L" :> "l") @@
    ("M" :> "m") @@ ("N" :> "n") @@ ("O" :> "o") @@ ("P" :> "p") @@
    ("Q" :> "q") @@ ("R" :> "r") @@ ("S" :> "s") @@ ("T" :> "t") @@
    ("U" :> "u") @@ ("V" :> "v") @@ ("W" :> "w") @@ ("X" :> "x") @@
    ("Y" :> "y") @@ ("Z" :> "z")

lower_char(c) == IF c \in DOMAIN UpperToLower THEN UpperToLower[c] ELSE c

\* str.lower()
lower(s) == [i \in 1..Len(s) |-> lower_char(s[i])]

Whitespace == {" ", "\n", "\t"}

\* str.strip()
strip(s) ==
    LET kept == {i \in 1..Len(s) : s[i] \notin Whitespace}
    IN  IF kept = {} THEN <<>> ELSE SubSeq(s, SetMin(kept), SetMax(kept))

\* str.replace(' ', '')
replace_spaces(s) == SelectSeq(s, LAMBDA c : c # " ")

\* the occurrence test  sub in s  at 0-based offset i
occurs_at(sub, s, i) ==
    /\ i + Len(sub) <= Len(s)
    /\ \A j \in 1..Len(sub) : s[i + j] = sub[j]

\* sub in s
contains(sub, s) == \E i \in 0..(Len(s) - Len(sub)) : occurs_at(sub, s, i)

RECURSIVE SumSeq(_)
SumSeq(s) == IF s = <<>> THEN 0 ELSE Head(s) + SumSeq(Tail(s))

RECURSIVE Flatten(_)
Flatten(ss) == IF ss = <<>> THEN <<>> ELSE Head(ss) \o Flatten(Tail(ss))

MapSeq(s, Op(_)) == [i \in 1..Len(s) |-> Op(s[i])]

(***************************************************************************)
(* __init__: the rule configuration                                        *)
(***************************************************************************)
process_requirements ==
    [ProcessCI \in {"Company Incorporation"} |->
        [required_documents |-> <<<<"A","r","t","i","c","l","e","s"," ","o","f"," ","A","s","s","o","c","i","a","t","i","o","n">>,
                                  <<"M","e","m","o","r","a","n","d","u","m"," ","o","f"," ","A","s","s","o","c","i","a","t","i","o","n">>,
                                  <<"B","o","a","r","d"," ","R","e","s","o","l","u","t","i","o","n">>,
                                  <<"U","B","O"," ","D","e","c","l","a","r","a","t","i","o","n"," ","F","o","r","m">>>>,
         mandatory_clauses |-> <<<<"r","e","g","i","s","t","e","r","e","d"," ","o","f","f","i","c","e">>,
                                 <<"s","h","a","r","e"," ","c","a","p","i","t","a","l">>,
                                 <<"d","i","r","e","c","t","o","r","s">>,
                                 <<"l","i","a","b","i","l","i","t","y">>,
                                 <<"o","b","j","e","c","t","s">>>>,
         jurisdiction_requirements |-> <<<<"A","D","G","M">>, <<"A","b","u"," ","D","h","a","b","i"," ","G","l","o","b","a","l"," ","M","a","r","k","e","t">>>>]]

\* a slip the engine does not make: placeholders are filed under red_flags
red_flag_patterns_filed_as_red_flags ==
    << [pattern |-> <<[kind |-> "literal", text |-> <<"U","A","E"," ","F","e","d","e","r","a","l"," ","C","o","u","r","t">>],
                      [kind |-> "literal", text |-> <<"D","u","b","a","i"," ","C","o","u","r","t">>]>>,
        issue |-> "Incorrect jurisdiction - should specify ADGM Courts",
        severity |-> "High",
        category |-> "jurisdiction"],
       [pattern |-> <<[kind |-> "bracketed"],
                      [kind |-> "literal", text |-> <<"T","B","D">>],
                      [kind |-> "literal", text |-> <<"T","O"," ","B","E"," ","D","E","T","E","R","M","I","N","E","D">>]>>,
        issue |-> "Template placeholder not filled",
        severity |-> "Medium",
        category |-> "red_flags"] >>

\* a compiled pattern is the ordered list of its alternatives:
\*   r'UAE Federal Court|Dubai Court' and r'\[.*\]|TBD|TO BE DETERMINED'
red_flag_patterns ==
    << [pattern |-> <<[kind |-> "literal", text |-> <<"U","A","E"," ","F","e","d","e","r","a","l"," ","C","o","u","r","t">>],
                      [kind |-> "literal", text |-> <<"D","u","b","a","i"," ","C","o","u","r","t">>]>>,
        issue |-> "Incorrect jurisdiction - should specify ADGM Courts",
        severity |-> "High",
        category |-> "jurisdiction"],
       [pattern |-> <<[kind |-> "bracketed"],
                      [kind |-> "literal", text |-> <<"T","B","D">>],
                      [kind |-> "literal", text |-> <<"T","O"," ","B","E"," ","D","E","T","E","R","M","I","N","E","D">>]>>,
        issue |-> "Template placeholder not filled",
        severity |-> "Medium",
        category |-> "completeness"] >>

ComplianceChecker ==
    [process_requirements |-> process_requirements,
     red_flag_patterns |-> red_flag_patterns]

(***************************************************************************)
(* _debug_mandatory_clauses                                                *)
(***************************************************************************)
clause_variations(clause) ==
    << lower(clause),
       replace_spaces(lower(clause)),
       lower(clause) \o <<" ","o","f">>,
       <<"t","h","e"," ">> \o lower(clause) >>

\* a slip the engine does not make: the inner loop does not break
matched_variations_without_break(variations, content) ==
    SelectSeq(variations, LAMBDA variation : contains(variation, content))

\* the inner loop: the variations recorded for one clause (the loop breaks
\* at the first variation found in the content)
matched_variations(variations, content) ==
    LET hits == {i \in 1..Len(variations) : contains(variations[i], content)}
    IN  IF hits = {} THEN <<>> ELSE <<variations[SetMin(hits)]>>

clause_matches(clause, content) ==
    MapSeq(matched_variations(clause_variations(clause), content),
           LAMBDA variation :
               [category |-> "mandatory_clauses",
                clause |-> clause,
                content |-> clause,
                found |-> TRUE,
                matched_variation |-> variation])

clause_issues(clause, content, ptype) ==
    IF matched_variations(clause_variations(clause), content) # <<>>
    THEN <<>>
    ELSE << [location |-> "Document Content",
             issue |-> <<"Missing mandatory clause: ", clause>>,
             severity |-> "High",
             category |-> "mandatory_clauses",
             suggestion |-> <<"Add ", clause, " clause as required for ", ptype>>] >>

debug_mandatory_clauses(engine, doc, ptype) ==
    IF ptype.type # "str"
    THEN [exc |-> <<"unhashable type: ", ptype.type>>]
    ELSE IF ptype.val \notin DOMAIN engine.process_requirements
    THEN [issues |-> <<>>, matches |-> <<>>]
    ELSE
        LET requirements == engine.process_requirements[ptype.val]
            required_clauses == requirements.mandatory_clauses
            content == lower(DictGet(doc, "content", PyStr(<<>>)).val)
        IN  [issues |-> Flatten(MapSeq(required_clauses,
                           LAMBDA clause : clause_issues(clause, content, ptype.val))),
             matches |-> Flatten(MapSeq(required_clauses,
                           LAMBDA clause : clause_matches(clause, content)))]

(***************************************************************************)
(* _debug_jurisdiction                                                     *)
(***************************************************************************)
adgm_indicators ==
    << <<"a","d","g","m">>,
       <<"a","b","u"," ","d","h","a","b","i"," ","g","l","o","b","a","l"," ","m","a","r","k","e","t">>,
       <<"a","d","g","m"," ","c","o","u","r","t","s">>,
       <<"a","d","g","m"," ","c","o","m","p","a","n","i","e","s"," ","r","e","g","u","l","a","t","i","o","n","s">> >>

problematic_refs == << <<"u","a","e"," ","f","e","d","e","r","a","l"," ","c","o","u","r","t">>, <<"d","u","b","a","i"," ","c","o","u","r","t">> >>

debug_jurisdiction(doc) ==
    LET content == DictGet(doc, "content", PyStr(<<>>)).val
        content_lower == lower(content)
        present(s) == contains(lower(s), content_lower)
    IN  [matches |-> MapSeq(SelectSeq(adgm_indicators, present),
                        LAMBDA indicator :
                            [category |-> "jurisdiction",
                             indicator |-> indicator,
                             content |-> indicator,
                             found |-> TRUE]),
         issues |-> MapSeq(SelectSeq(problematic_refs, present),
                        LAMBDA ref :
                            [location |-> "Jurisdiction Clause",
                             issue |-> <<"Incorrect jurisdiction reference: ", ref>>,
                             severity |-> "High",
                             category |-> "jurisdiction",
                             suggestion |-> "Update to specify ADGM as governing jurisdiction"])]

(***************************************************************************)
(* _debug_red_flags                                                        *)
(***************************************************************************)
\* re.IGNORECASE match of one alternative at 1-based position pos: the
\* position of the last character matched, 0 when the alternative fails.
\* '\[.*\]' is greedy and '.' does not match a newline: it runs from '[' to
\* the last ']' of the same line.
alternative_end(alt, content, pos) ==
    IF alt.kind = "literal"
    THEN IF /\ pos + Len(alt.text) - 1 <= Len(content)
            /\ \A j \in 1..Len(alt.text) :
                   lower_char(content[pos + j - 1]) = lower_char(alt.text[j])
         THEN pos + Len(alt.text) - 1
         ELSE 0
    ELSE IF content[pos] # "["
         THEN 0
         ELSE LET breaks == {j \in (pos + 1)..Len(content) : content[j] = "\n"}
                  line_end == IF breaks = {} THEN Len(content) ELSE SetMin(breaks) - 1
                  closers == {j \in (pos + 1)..line_end : content[j] = "]"}
              IN  IF closers = {} THEN 0 ELSE SetMax(closers)

\* alternation: the first alternative that matches at pos wins
match_end(pattern, content, pos) ==
    LET ok == {k \in 1..Len(pattern) : alternative_end(pattern[k], content, pos) # 0}
    IN  IF ok = {} THEN 0 ELSE alternative_end(pattern[SetMin(ok)], content, pos)

\* re.finditer: the non-overlapping matches, scanning left to right
RECURSIVE finditer(_, _, _)
finditer(pattern, content, pos) ==
    IF pos > Len(content)
    THEN <<>>
    ELSE LET e == match_end(pattern, content, pos)
         IN  IF e = 0
             THEN finditer(pattern, content, pos + 1)
             ELSE <<[start |-> pos - 1, group |-> SubSeq(content, pos, e)]>>
                  \o finditer(pattern, content, e + 1)

flag_issues(flag, content) ==
    MapSeq(finditer(flag.pattern, content, 1),
           LAMBDA match :
               [location |-> <<"Position ", match.start>>,
                issue |-> flag.issue,
                severity |-> flag.severity,
                category |-> flag.category,
                suggestion |-> "Update to comply with ADGM requirements",
                matched_text |-> match.group])

debug_red_flags(engine, doc) ==
    LET content == DictGet(doc, "content", PyStr(<<>>)).val
    IN  Flatten(MapSeq(engine.red_flag_patterns,
                       LAMBDA flag : flag_issues(flag, content)))

(***************************************************************************)
(* _debug_calculate_score                                                  *)
(***************************************************************************)
ScoreScale == 2

category_weights ==
    << <<"jurisdiction", 25>>,
       <<"mandatory_clauses", 25>>,
       <<"document_type", 15>>,
       <<"formatting", 15>>,
       <<"signatures", 10>>,
       <<"red_flags", 10>> >>

in_category(finding, category) == DictGet(finding, "category", "None") = category

jurisdiction_points(max_points, category_issues, category_matches) ==
    LET adgm_found ==
            \E i \in 1..Len(category_matches) :
                contains(<<"a","d","g","m">>, lower(DictGet(category_matches[i], "content", <<>>)))
    IN  IF adgm_found THEN max_points * ScoreScale
        ELSE IF category_issues # <<>> THEN 0
        ELSE (max_points * ScoreScale) \div 2

\* a slip the engine does not make: no required clauses earn no points
mandatory_clauses_points_none_for_unknown(engine, max_points, category_matches, ptype) ==
    LET required_clauses ==
            DictGet(DictGet(engine.process_requirements, ptype.val, <<>>),
                    "mandatory_clauses", <<>>)
    IN  IF required_clauses # <<>>
        THEN (max_points * ScoreScale
                * PyMin(Len(category_matches), Len(required_clauses)))
             \div Len(required_clauses)
        ELSE 0

mandatory_clauses_points(engine, max_points, category_matches, ptype) ==
    LET required_clauses ==
            DictGet(DictGet(engine.process_requirements, ptype.val, <<>>),
                    "mandatory_clauses", <<>>)
    IN  IF required_clauses # <<>>
        THEN (max_points * ScoreScale
                * PyMin(Len(category_matches), Len(required_clauses)))
             \div Len(required_clauses)
        ELSE max_points * ScoreScale

other_points(max_points, category_issues) ==
    IF category_issues # <<>> THEN 0 ELSE max_points * ScoreScale

category_points(engine, weight, issues, positive_matches, ptype) ==
    LET category == weight[1]
        max_points == weight[2]
        category_issues == SelectSeq(issues, LAMBDA f : in_category(f, category))
        category_matches == SelectSeq(positive_matches, LAMBDA f : in_category(f, category))
    IN  IF category = "jurisdiction"
        THEN jurisdiction_points(max_points, category_issues, category_matches)
        ELSE IF category = "mandatory_clauses"
        THEN mandatory_clauses_points(engine, max_points, category_matches, ptype)
        ELSE other_points(max_points, category_issues)

debug_calculate_score(engine, issues, positive_matches, ptype) ==
    LET total_score ==
            SumSeq(MapSeq(category_weights,
                          LAMBDA weight :
                              category_points(engine, weight, issues, positive_matches, ptype)))
    IN  PyMin(PyMax(total_score, 0), 100 * ScoreScale)

(***************************************************************************)
(* check_document                                                          *)
(***************************************************************************)
MinContentLength == 50

ComplianceThreshold == 80

PreviewLength == 100

\* a slip the engine does not make: the length is taken before trimming
content_rejected_untrimmed(content) ==
    \/ Len(content.val) = 0
    \/ Len(content.val) < MinContentLength

\* the input guard:  not content or len(content.strip()) < 50
content_rejected(content) ==
    \/ Len(content.val) = 0
    \/ Len(strip(content.val)) < MinContentLength

\* a slip the engine does not make: a score of exactly 80 is not compliant
is_compliant_strict(compliance_score) ==
    compliance_score > ComplianceThreshold * ScoreScale

is_compliant(compliance_score) == compliance_score >= ComplianceThreshold * ScoreScale

Returned(value, calls) == [kind |-> "return", value |-> value, calls |-> calls]

Raised(exc, calls) == [kind |-> "raise", exc |-> exc, calls |-> calls]

empty_content_result ==
    [is_compliant |-> FALSE,
     compliance_score |-> 0,
     total_issues |-> 1,
     positive_matches |-> 0,
     issues |-> <<[issue |-> "Document content is empty or unreadable",
                   severity |-> "High"]>>,
     debug_error |-> "Empty content"]

exception_result(exc) ==
    [is_compliant |-> FALSE,
     compliance_score |-> 0,
     total_issues |-> 0,
     positive_matches |-> 0,
     issues |-> <<[issue |-> <<"Compliance check failed: ", exc>>,
                   severity |-> "High"]>>,
     error |-> exc]

check_document(engine, doc, ptype) ==
    LET content == DictGet(doc, "content", PyStr(<<>>))
    IN  IF ~HasLen(content)
        THEN \* len(content) on line 55 is outside the try block
             Raised(<<"TypeError: object has no len(): ", content.type>>, <<>>)
        ELSE IF content.type # "str" /\ Len(content.val) # 0
        THEN \* content.strip() on line 60 is outside the try block
             Raised(<<"AttributeError: object has no attribute strip: ", content.type>>, <<>>)
        ELSE IF content_rejected(content)
        THEN Returned(empty_content_result, <<>>)
        ELSE
            LET mandatory_results == debug_mandatory_clauses(engine, doc, ptype)
            IN  IF "exc" \in DOMAIN mandatory_results
                THEN Returned(exception_result(mandatory_results.exc),
                              <<"_debug_mandatory_clauses">>)
                ELSE
                    LET jurisdiction_results == debug_jurisdiction(doc)
                        red_flag_issues == debug_red_flags(engine, doc)
                        issues == mandatory_results.issues
                                    \o jurisdiction_results.issues
                                    \o red_flag_issues
                        positive_matches == mandatory_results.matches
                                              \o jurisdiction_results.matches
                        compliance_score ==
                            debug_calculate_score(engine, issues, positive_matches, ptype)
                    IN  Returned(
                            [is_compliant |-> is_compliant(compliance_score),
                             compliance_score |-> compliance_score,
                             total_issues |-> Len(issues),
                             positive_matches |-> Len(positive_matches),
                             issues |-> issues,
                             debug_info |->
                                 [content_length |-> Len(content.val),
                                  mandatory_matches |-> Len(mandatory_results.matches),
                                  jurisdiction_matches |-> Len(jurisdiction_results.matches),
                                  content_preview |->
                                      SubSeq(content.val, 1,
                                             PyMin(PreviewLength, Len(content.val)))]],
                            <<"_debug_mandatory_clauses", "_debug_jurisdiction",
                              "_debug_red_flags", "_debug_calculate_score">>)

(***************************************************************************)
(* The callers' inputs                                                     *)
(***************************************************************************)
MaxTokens == 2

MaxCalls == 3

Heads ==
    { <<>>,
      <<" "," "," "," "," "," "," "," "," "," "," "," ","s","h","o","r","t"," ","d","r","a","f","t"," ","t","e","x","t","\t","\n"," "," "," "," "," "," "," "," "," "," "," "," "," "," "," "," "," "," "," "," "," "," "," "," ">>,
      <<"t","h","i","s"," ","d","e","e","d"," ","i","s"," ","m","a","d","e"," ","b","e","t","w","e","e","n"," ","t","h","e"," ","p","a","r","t","i","e","s"," ","o","n"," ","t","h","e"," ","d","a","t","e">>,
      <<"t","h","i","s"," ","d","e","e","d"," ","i","s"," ","m","a","d","e"," ","b","e","t","w","e","e","n"," ","t","h","e"," ","p","a","r","t","i","e","s"," ","o","n"," ","t","h","e"," ","d","a","t","e",".">>,
      <<"R","e","g","i","s","t","e","r","e","d"," ","O","f","f","i","c","e",","," ","S","h","a","r","e"," ","C","a","p","i","t","a","l",","," ","D","i","r","e","c","t","o","r","s",","," ","L","i","a","b","i","l","i","t","y",","," ","O","b","j","e","c","t","s","."," ">> }

Tokens ==
    { <<"A","D","G","M"," ">>,
      <<"A","b","u"," ","D","h","a","b","i"," ","G","l","o","b","a","l"," ","M","a","r","k","e","t"," ">>,
      <<"D","u","b","a","i"," ","C","o","u","r","t"," ">>,
      <<"U","A","E"," ","F","e","d","e","r","a","l"," ","C","o","u","r","t"," ">>,
      <<"T","B","D"," ">>,
      <<"[","T","B","D","]"," ">>,
      <<"\n">>,
      <<"r","e","g","i","s","t","e","r","e","d","o","f","f","i","c","e"," ">>,
      <<"T","h","e"," ","D","i","r","e","c","t","o","r","s"," ">> }

TokenSeqs == UNION {[1..n -> Tokens] : n \in 0..MaxTokens}

Contents == {h \o Flatten(ts) : h \in Heads, ts \in TokenSeqs}

Document(content) ==
    [filename |-> "articles.docx",
     document_type |-> "Articles of Association",
     content |-> content]

Documents ==
    {Document(PyStr(c)) : c \in Contents}
        \cup {Document(PyNone), Document(PyInt(123)), Document(PyList(<<>>)),
              Document(PyList(<<"page">>)),
              [filename |-> "articles.docx",
               document_type |-> "Articles of Association"]}

ProcessTypes == {PyStr("Company Incorporation"), PyStr("Foo"), PyList(<<>>)}

NoOutcome == [kind |-> "none"]

(***************************************************************************)
(* One call of check_document on a freshly constructed engine              *)
(***************************************************************************)
Init ==
    /\ self = ComplianceChecker
    /\ doc_data \in Documents
    /\ process_type \in ProcessTypes
    /\ pc = "called"
    /\ outcome = NoOutcome
    /\ history = <<>>

\* a slip the engine does not make: the clauses found are removed from the
\* shared rule list
CheckDocumentConsuming ==
    /\ pc = "called"
    /\ outcome' = check_document(self, doc_data, process_type)
    /\ history' = Append(history, [doc_data |-> doc_data,
                                   process_type |-> process_type,
                                   outcome |-> outcome'])
    /\ pc' = "done"
    /\ self' =
         IF /\ outcome'.calls # <<>>
            /\ process_type.type = "str"
            /\ process_type.val \in DOMAIN self.process_requirements
         THEN [self EXCEPT !.process_requirements[process_type.val].mandatory_clauses =
                   SelectSeq(@, LAMBDA clause :
                       matched_variations(clause_variations(clause),
                                          lower(doc_data.content.val)) = <<>>)]
         ELSE self
    /\ UNCHANGED <<doc_data, process_type>>

CheckDocument ==
    /\ pc = "called"
    /\ outcome' = check_document(self, doc_data, process_type)
    /\ history' = Append(history, [doc_data |-> doc_data,
                                   process_type |-> process_type,
                                   outcome |-> outcome'])
    /\ pc' = "done"
    /\ UNCHANGED <<self, doc_data, process_type>>

Next == CheckDocument

Spec == Init /\ [][Next]_vars

(***************************************************************************)
(* A caller making several calls on one engine                             *)
(***************************************************************************)
SeqDocuments ==
    { Document(PyStr(<<"t","h","i","s"," ","d","e","e","d"," ","i","s"," ","m","a","d","e"," ","b","e","t","w","e","e","n"," ","t","h","e"," ","p","a","r","t","i","e","s"," ","o","n"," ","t","h","e"," ","d","a","t","e",".">>
                     \o <<"T","h","e"," ","D","i","r","e","c","t","o","r","s"," ">> \o <<"A","D","G","M"," ">>)),
      Document(PyStr(<<"R","e","g","i","s","t","e","r","e","d"," ","O","f","f","i","c","e",","," ","S","h","a","r","e"," ","C","a","p","i","t","a","l",","," ","D","i","r","e","c","t","o","r","s",","," ","L","i","a","b","i","l","i","t","y",","," ","O","b","j","e","c","t","s","."," ">>
                     \o <<"D","u","b","a","i"," ","C","o","u","r","t"," ">>)),
      Document(PyStr(<<"t","h","i","s"," ","d","e","e","d"," ","i","s"," ","m","a","d","e"," ","b","e","t","w","e","e","n"," ","t","h","e"," ","p","a","r","t","i","e","s"," ","o","n"," ","t","h","e"," ","d","a","t","e",".">>
                     \o <<"[","T","B","D","]"," ">> \o <<"T","B","D"," ">>)),
      Document(PyStr(<<" "," "," "," "," "," "," "," "," "," "," "," ","s","h","o","r","t"," ","d","r","a","f","t"," ","t","e","x","t","\t","\n"," "," "," "," "," "," "," "," "," "," "," "," "," "," "," "," "," "," "," "," "," "," "," "," ">>)) }

SeqProcessTypes == {PyStr("Company Incorporation"), PyStr("Foo")}

SeqInit ==
    /\ self = ComplianceChecker
    /\ doc_data \in SeqDocuments
    /\ process_type \in SeqProcessTypes
    /\ pc = "called"
    /\ outcome = NoOutcome
    /\ history = <<>>

\* the caller passes the next document once the previous call has returned
Submit ==
    /\ pc = "done"
    /\ Len(history) < MaxCalls
    /\ doc_data' \in SeqDocuments
    /\ process_type' \in SeqProcessTypes
    /\ pc' = "called"
    /\ outcome' = NoOutcome
    /\ UNCHANGED <<self, history>>

SeqNext == CheckDocument \/ Submit

SeqSpec == SeqInit /\ [][SeqNext]_vars

(***************************************************************************)
(* Properties                                                              *)
(***************************************************************************)
Done == pc = "done"

Content == DictGet(doc_data, "content", PyStr(<<>>))

Result == outcome.value

\* the document is text that the input guard lets through
PassesGuard ==
    /\ Content.type = "str"
    /\ Len(strip(Content.val)) >= MinContentLength

\* the call ran the matchers and the scorer to the end
Evaluated == Done /\ PassesGuard /\ process_type.type = "str"

CategoryIssues(category) ==
    SelectSeq(Result.issues, LAMBDA i : DictGet(i, "category", "None") = category)

\* the jurisdiction category's points for the findings of this call
JurisdictionScore ==
    LET m == debug_mandatory_clauses(self, doc_data, process_type)
        j == debug_jurisdiction(doc_data)
        r == debug_red_flags(self, doc_data)
    IN  category_points(self, category_weights[1],
                        m.issues \o j.issues \o r, m.matches \o j.matches,
                        process_type)

PositiveIndicators ==
    { <<"a","d","g","m">>, <<"a","b","u"," ","d","h","a","b","i"," ","g","l","o","b","a","l"," ","m","a","r","k","e","t">>, <<"a","d","g","m"," ","c","o","u","r","t","s">>,
      <<"a","d","g","m"," ","c","o","m","p","a","n","i","e","s"," ","r","e","g","u","l","a","t","i","o","n","s">> }

ProhibitedReferences == { <<"u","a","e"," ","f","e","d","e","r","a","l"," ","c","o","u","r","t">>, <<"d","u","b","a","i"," ","c","o","u","r","t">> }

HasPositiveIndicator == \E s \in PositiveIndicators : contains(s, lower(Content.val))

HasProhibitedReference == \E s \in ProhibitedReferences : contains(s, lower(Content.val))

RequiredClauses ==
    IF process_type.val \in DOMAIN self.process_requirements
    THEN self.process_requirements[process_type.val].mandatory_clauses
    ELSE <<>>

\* C1: every returned result has its score within 0..100 and is flagged
\* compliant exactly when the score is at least 80.
ScoreInRangeAndVerdict ==
    (Done /\ outcome.kind = "return") =>
        /\ Result.compliance_score >= 0
        /\ Result.compliance_score <= 100 * ScoreScale
        /\ Result.is_compliant = (Result.compliance_score >= ComplianceThreshold * ScoreScale)

\* an evaluated document scoring exactly 80, which is compliant
ScoreAtThreshold ==
    /\ Evaluated
    /\ outcome.kind = "return"
    /\ Result.compliance_score = ComplianceThreshold * ScoreScale
    /\ Result.is_compliant

\* C2: check_document is total: every call returns a result, and a result
\* reporting a failure has score 0 and is not compliant.
CheckDocumentIsTotal ==
    Done =>
        /\ outcome.kind = "return"
        /\ ("error" \in DOMAIN Result =>
               Result.compliance_score = 0 /\ ~Result.is_compliant)

\* C3: text that is empty or shorter than 50 characters once trimmed is
\* answered with score 0, not compliant, exactly one issue of severity High,
\* and none of the matchers nor the scorer has run.
ShortContentRejected ==
    (Done /\ Content.type = "str" /\ Len(strip(Content.val)) < MinContentLength) =>
        /\ outcome.kind = "return"
        /\ outcome.calls = <<>>
        /\ Result.compliance_score = 0
        /\ ~Result.is_compliant
        /\ Len(Result.issues) = 1
        /\ Result.issues[1].severity = "High"
        /\ "category" \notin DOMAIN Result.issues[1]
        /\ Result.positive_matches = 0

\* text of 50 characters or more that is too short only once trimmed, and
\* that holds a placeholder the red-flag matcher would have reported
PaddedContentRejected ==
    /\ Done
    /\ Content.type = "str"
    /\ Len(Content.val) >= MinContentLength
    /\ Len(strip(Content.val)) < MinContentLength
    /\ contains(<<"T","B","D">>, Content.val)
    /\ outcome.kind = "return"
    /\ Len(Result.issues) = 1

\* C4: the jurisdiction category gives 25 iff a positive indicator is in the
\* content, 0 iff a prohibited reference is and no positive indicator is,
\* and 12.5 otherwise.
JurisdictionByIndicators ==
    Evaluated =>
        /\ (JurisdictionScore = 25 * ScoreScale) = HasPositiveIndicator
        /\ (JurisdictionScore = 0) = (HasProhibitedReference /\ ~HasPositiveIndicator)
        /\ (JurisdictionScore \notin {0, 25 * ScoreScale}) =>
               JurisdictionScore * 2 = 25 * ScoreScale

MandatoryScore ==
    IF RequiredClauses = <<>>
    THEN 25 * ScoreScale
    ELSE (25 * ScoreScale
            * PyMin(Result.debug_info.mandatory_matches, Len(RequiredClauses)))
         \div Len(RequiredClauses)

AllFiveClausesPresent ==
    \A label \in { <<"r","e","g","i","s","t","e","r","e","d"," ","o","f","f","i","c","e">>, <<"s","h","a","r","e"," ","c","a","p","i","t","a","l">>, <<"d","i","r","e","c","t","o","r","s">>,
                   <<"l","i","a","b","i","l","i","t","y">>, <<"o","b","j","e","c","t","s">> } :
        contains(label, lower(Content.val))

\* C5: an evaluated document scores J + M + 50: the jurisdiction points, the
\* share of required clauses matched out of 25, and the full 15+15+10+10 of
\* the other four categories whatever the red-flag matcher reports; all five
\* 'Company Incorporation' clauses with a prohibited court and no ADGM
\* indicator score 75, not compliant.
ScoreIsJurisdictionPlusClausesPlusFifty ==
    Evaluated =>
        /\ outcome.kind = "return"
        /\ "error" \notin DOMAIN Result
        /\ Result.compliance_score = JurisdictionScore + MandatoryScore + 50 * ScoreScale
        /\ (/\ process_type.val = "Company Incorporation"
            /\ AllFiveClausesPresent
            /\ HasProhibitedReference
            /\ ~HasPositiveIndicator)
           => (Result.compliance_score = 75 * ScoreScale /\ ~Result.is_compliant)

\* the example of C5, with a placeholder reported by the red-flag matcher
AllClausesProhibitedCourtScores75 ==
    /\ Evaluated
    /\ process_type.val = "Company Incorporation"
    /\ AllFiveClausesPresent
    /\ HasProhibitedReference
    /\ ~HasPositiveIndicator
    /\ CategoryIssues("completeness") # <<>>
    /\ CategoryIssues("jurisdiction") # <<>>
    /\ Result.compliance_score = 75 * ScoreScale

ClaimedVariations(label) ==
    << lower(label),
       SelectSeq(lower(label), LAMBDA c : c # " "),
       lower(label) \o <<" ","o","f">>,
       <<"t","h","e"," ">> \o lower(label) >>

ClauseFindings == debug_mandatory_clauses(self, doc_data, process_type)

\* C6: for a recognized process type every required clause gets exactly one
\* finding: a match carrying the label and the first of its four variations
\* found in the lowercased content, or, when none is found, an issue of
\* severity High and category mandatory_clauses; matches plus issues equal
\* the number of required clauses.
OneFindingPerRequiredClause ==
    (Evaluated /\ process_type.val \in DOMAIN self.process_requirements) =>
        LET found == ClauseFindings
            required == self.process_requirements[process_type.val].mandatory_clauses
            matchesOf(label) == SelectSeq(found.matches, LAMBDA m : m.clause = label)
            issuesOf(label) ==
                SelectSeq(found.issues,
                          LAMBDA i : i.issue = <<"Missing mandatory clause: ", label>>)
            hits(label) == {k \in 1..4 :
                               contains(ClaimedVariations(label)[k], lower(Content.val))}
        IN  /\ Len(found.matches) + Len(found.issues) = Len(required)
            /\ Result.debug_info.mandatory_matches
                 + Len(CategoryIssues("mandatory_clauses")) = Len(required)
            /\ \A n \in 1..Len(required) :
                 LET label == required[n]
                 IN  IF hits(label) # {}
                     THEN /\ Len(matchesOf(label)) = 1
                          /\ issuesOf(label) = <<>>
                          /\ matchesOf(label)[1].category = "mandatory_clauses"
                          /\ matchesOf(label)[1].matched_variation
                               = ClaimedVariations(label)[SetMin(hits(label))]
                     ELSE /\ matchesOf(label) = <<>>
                          /\ Len(issuesOf(label)) = 1
                          /\ issuesOf(label)[1].severity = "High"
                          /\ issuesOf(label)[1].category = "mandatory_clauses"

\* a clause found only by a later variation, beside a clause that is missing
\* and a clause several of whose variations are in the content
ClauseFoundByLaterVariation ==
    /\ Evaluated
    /\ process_type.val \in DOMAIN self.process_requirements
    /\ \E i \in 1..Len(ClauseFindings.matches) :
           ClauseFindings.matches[i].matched_variation
               # lower(ClauseFindings.matches[i].clause)
    /\ contains(<<"t","h","e"," ","d","i","r","e","c","t","o","r","s">>, lower(Content.val))
    /\ ClauseFindings.issues # <<>>

TBDOffsets == {i \in 0..(Len(Content.val) - 3) : occurs_at(<<"T","B","D">>, Content.val, i)}

\* C7: content in which 'TBD' occurs N times yields exactly N issues of
\* severity Medium and category completeness for those occurrences, at
\* pairwise distinct offsets, each carrying the matched substring.
OneIssuePerPlaceholder ==
    Evaluated =>
        LET reported == {n \in 1..Len(Result.issues) :
                            \E p \in TBDOffsets :
                                /\ "matched_text" \in DOMAIN Result.issues[n]
                                /\ Result.issues[n].location[2] <= p
                                /\ p + 3 <= Result.issues[n].location[2]
                                              + Len(Result.issues[n].matched_text)}
        IN  /\ Cardinality(reported) = Cardinality(TBDOffsets)
            /\ \A n \in reported :
                 /\ Result.issues[n].severity = "Medium"
                 /\ Result.issues[n].category = "completeness"
                 /\ Result.issues[n].matched_text
                      = SubSeq(Content.val, Result.issues[n].location[2] + 1,
                               Result.issues[n].location[2]
                                 + Len(Result.issues[n].matched_text))
            /\ \A n1, n2 \in reported :
                 n1 # n2 => Result.issues[n1].location # Result.issues[n2].location

\* C8: an unrecognized process type does not fail the call: no clause match,
\* no clause issue, the mandatory_clauses category at its full 25, so that
\* the score is the jurisdiction points plus 75.
UnrecognizedProcessTypeSkipsClauses ==
    (Evaluated /\ process_type.val \notin DOMAIN self.process_requirements) =>
        /\ outcome.kind = "return"
        /\ "error" \notin DOMAIN Result
        /\ ClauseFindings = [issues |-> <<>>, matches |-> <<>>]
        /\ Result.debug_info.mandatory_matches = 0
        /\ CategoryIssues("mandatory_clauses") = <<>>
        /\ Result.compliance_score = JurisdictionScore + 75 * ScoreScale

\* an evaluated document under process type "Foo" that has no ADGM indicator
UnrecognizedProcessTypeEvaluated ==
    /\ Evaluated
    /\ process_type.val = "Foo"
    /\ outcome.kind = "return"
    /\ ~HasPositiveIndicator
    /\ Result.compliance_score \in {75 * ScoreScale, 75 * ScoreScale + (25 * ScoreScale) \div 2}

TotalIssuesMatchesIssues ==
    (Done /\ outcome.kind = "return") => Result.total_issues = Len(Result.issues)

====
